---- MODULE Spec2Model ----
(***************************************************************************)
(* A model of lyricsx: the LRC timestamp (LRCTime), the timed lines        *)
(* (LyricLine, EnhancedLyricLine), the combined lines, the documents and   *)
(* the two parsers with the multi-source merge.                            *)
(*                                                                         *)
(* Text is modelled character by character: a Python str is a sequence of  *)
(* one-character strings, so that the regular expressions, the padding and *)
(* the formatting are computed as the code computes them.                  *)
(***************************************************************************)
EXTENDS Integers, Sequences, FiniteSets, TLC

VARIABLES
    pc,     \* position of the caller: "start" before the call, "done" after it, "rendered" or "printed" once the string form is taken
    call,   \* the arguments of the call(s) made
    heap,   \* the LyricLine objects alive: object id -> [time, texts]
    ret     \* what the call(s) returned (or the exception raised)

vars == <<pc, call, heap, ret>>

(***************************************************************************)
(* Characters and strings                                                  *)
(***************************************************************************)

Digits == {"0", "1", "2", "3", "4", "5", "6", "7", "8", "9"}

Letters ==
    {"a", "b", "c", "d", "e", "f", "g", "h", "i", "j", "k", "l", "m",
     "n", "o", "p", "q", "r", "s", "t", "u", "v", "w", "x", "y", "z",
     "A", "B", "C", "D", "E", "F", "G", "H", "I", "J", "K", "L", "M",
     "N", "O", "P", "Q", "R", "S", "T", "U", "V", "W", "X", "Y", "Z"}

\* the characters str.strip() removes (those the model's texts can hold)
Whitespace == {" ", "\t", "\n", "\r"}

\* the line boundaries of str.splitlines() (those the model's texts can hold)
LineBreaks == {"\n", "\r"}

DigitVal(c) ==
    CASE c = "0" -> 0 [] c = "1" -> 1 [] c = "2" -> 2 [] c = "3" -> 3
      [] c = "4" -> 4 [] c = "5" -> 5 [] c = "6" -> 6 [] c = "7" -> 7
      [] c = "8" -> 8 [] c = "9" -> 9

DigitChar(d) ==
    CASE d = 0 -> "0" [] d = 1 -> "1" [] d = 2 -> "2" [] d = 3 -> "3"
      [] d = 4 -> "4" [] d = 5 -> "5" [] d = 6 -> "6" [] d = 7 -> "7"
      [] d = 8 -> "8" [] d = 9 -> "9"

\* str.isdigit(): at least one character, and digits only
IsDigitStr(s) == Len(s) > 0 /\ \A i \in 1..Len(s) : s[i] \in Digits

\* int(s) of a digit string
RECURSIVE ToInt(_)
ToInt(s) ==
    IF Len(s) = 0 THEN 0
    ELSE 10 * ToInt(SubSeq(s, 1, Len(s) - 1)) + DigitVal(s[Len(s)])

\* s.ljust(width, fill)
RECURSIVE LJust(_, _, _)
LJust(s, width, fill) ==
    IF Len(s) >= width THEN s ELSE LJust(Append(s, fill), width, fill)

\* str(n) of a natural number
RECURSIVE Decimal(_)
Decimal(n) ==
    IF n < 10 THEN <<DigitChar(n)>>
    ELSE Append(Decimal(n \div 10), DigitChar(n % 10))

\* s.rjust(width, "0")
RECURSIVE ZFill(_, _)
ZFill(s, width) ==
    IF Len(s) >= width THEN s ELSE ZFill(<<"0">> \o s, width)

\* f"{n:0{width}d}"
Format(n, width) == ZFill(Decimal(n), width)

\* a list with the elements f[1], f[2], ... (as a sequence that is computed once)
List(f) == <<>> \o f

\* "sep".join(parts)
RECURSIVE Join(_, _)
Join(parts, sep) ==
    IF Len(parts) = 0 THEN <<>>
    ELSE IF Len(parts) = 1 THEN parts[1]
    ELSE parts[1] \o sep \o Join(Tail(parts), sep)

Abs(n) == IF n < 0 THEN -n ELSE n

(***************************************************************************)
(* LRCTime (model.py).  A timestamp object is its timedelta, held as the   *)
(* total of milliseconds; None is the absent timestamp of an empty         *)
(* enhanced line.                                                          *)
(***************************************************************************)

\* the absent timestamp (start_time of a line without characters); a
\* timestamp is a total of milliseconds, never negative
None == -1

\* no exception raised
NoExc == "None"

\* an LRCTime.__init__ whose range check lets 60 seconds through
LRCTimeInit_sec60(minutes, seconds, milliseconds) ==
    IF ~(IsDigitStr(minutes) /\ IsDigitStr(seconds) /\ IsDigitStr(milliseconds))
    THEN [exc |-> "ValueError", time |-> None]
    ELSE
        LET min_val == ToInt(minutes)
            sec_val == ToInt(seconds)
            ms_val  == ToInt(LJust(milliseconds, 3, "0"))
        IN  IF ~(0 <= sec_val /\ sec_val <= 60)
            THEN [exc |-> "ValueError", time |-> None]
            ELSE IF ~(0 <= ms_val /\ ms_val <= 999)
            THEN [exc |-> "ValueError", time |-> None]
            ELSE [exc |-> NoExc,
                  time |-> 60000 * min_val + 1000 * sec_val + ms_val]

\* LRCTime.__init__: the object constructed, or the exception raised
LRCTimeInit(minutes, seconds, milliseconds) ==
    IF ~(IsDigitStr(minutes) /\ IsDigitStr(seconds) /\ IsDigitStr(milliseconds))
    THEN [exc |-> "ValueError", time |-> None]
    ELSE
        LET min_val == ToInt(minutes)
            sec_val == ToInt(seconds)
            ms_val  == ToInt(LJust(milliseconds, 3, "0"))
        IN  IF min_val < 0 THEN [exc |-> "ValueError", time |-> None]
            ELSE IF ~(0 <= sec_val /\ sec_val <= 59)
            THEN [exc |-> "ValueError", time |-> None]
            ELSE IF ~(0 <= ms_val /\ ms_val <= 999)
            THEN [exc |-> "ValueError", time |-> None]
            ELSE [exc |-> NoExc,
                  time |-> 60000 * min_val + 1000 * sec_val + ms_val]

\* LRCTime.total_milliseconds
total_milliseconds(t) == t

\* LRCTime.milliseconds, .seconds, .minutes
milliseconds_of(t) == total_milliseconds(t) % 1000
seconds_of(t) == (total_milliseconds(t) \div 1000) % 60
minutes_of(t) == total_milliseconds(t) \div 60000

\* a from_total_milliseconds that forgets to zero-pad the millisecond part
from_total_milliseconds_unpadded(ms) ==
    LRCTimeInit(Format(ms \div 60000, 2),
                Format((ms % 60000) \div 1000, 2),
                Format(ms % 1000, 1))

\* LRCTime.from_total_milliseconds
from_total_milliseconds(ms) ==
    LET minutes == ms \div 60000
        seconds == (ms % 60000) \div 1000
        milliseconds_val == ms % 1000
    IN  LRCTimeInit(Format(minutes, 2), Format(seconds, 2),
                    Format(milliseconds_val, 3))

\* LRCTime.__str__; str(None) for the absent timestamp
TimeStr(t) ==
    IF t = None THEN <<"N", "o", "n", "e">>
    ELSE Format(minutes_of(t), 2) \o <<":">> \o Format(seconds_of(t), 2)
         \o <<".">> \o Format(milliseconds_of(t), 3)

\* LRCTime.__eq__
TimeEq(a, b) == a = b

(***************************************************************************)
(* The timestamp specification: a caller constructs LRCTime(m, s, ms) from *)
(* three strings, and on success rebuilds it from its total milliseconds.  *)
(***************************************************************************)

MinuteInputs ==
    { <<>>, <<"0">>, <<"0", "0">>, <<"0", "7">>, <<"9", "9">>,
      <<"1", "0", "0">>, <<"1", "x">>, <<"-", "1">> }

SecondInputs ==
    { <<>>, <<"0">>, <<"5">>, <<"0", "0">>, <<"1", "2">>, <<"5", "9">>,
      <<"6", "0">>, <<"9", "9">>, <<"0", "5", "9">>, <<"1", "0", "0">>,
      <<"x">>, <<"5", " ">> }

MillisecondInputs ==
    { <<>>, <<"0">>, <<"3">>, <<"3", "4">>, <<"0", "5">>, <<"3", "4", "0">>,
      <<"0", "0", "5">>, <<"9", "9", "9">>, <<"1", "0", "0", "0">>,
      <<"0", "9", "9", "9">>, <<"0", "0", "5", "0">>, <<"9", "9", "9", "0">>,
      <<"3", "a">>, <<".", "5">> }

InitTime ==
    /\ pc = "start"
    /\ \E m \in MinuteInputs, s \in SecondInputs, ms \in MillisecondInputs :
          call = [minutes |-> m, seconds |-> s, milliseconds |-> ms]
    /\ heap = <<>>
    /\ ret = <<>>

\* LRCTime(m, s, ms), then from_total_milliseconds of its total
Construct ==
    /\ pc = "start"
    /\ LET t == LRCTimeInit(call.minutes, call.seconds, call.milliseconds)
       IN  ret' = [made |-> t,
                   back |-> IF t.exc = NoExc
                            THEN from_total_milliseconds(total_milliseconds(t.time))
                            ELSE [exc |-> NoExc, time |-> None]]
    /\ pc' = "done"
    /\ UNCHANGED <<call, heap>>

NextTime == Construct

SpecTime == InitTime /\ [][NextTime]_vars

(***************************************************************************)
(* LyricLine and the combined lines (model.py, enhanced_model.py).         *)
(* LyricLine objects live in the heap, a sequence indexed by object id, so *)
(* that copying an object and assigning to a field of the copy differ from *)
(* assigning to the object itself.                                         *)
(***************************************************************************)

\* LyricLine.__init__
LyricLine(time, texts) == [time |-> time, texts |-> texts]

\* LyricLine.__str__
LineStr(l) == <<"[">> \o TimeStr(l.time) \o <<"]">> \o l.texts

\* LyricLine.empty_line
empty_line == LyricLine(LRCTimeInit(<<"0", "0">>, <<"0", "0">>, <<"0", "0", "0">>).time, <<>>)

\* the loop of the two constructors without the deepcopy: the caller's
\* object itself is stamped and stored
RECURSIVE StampAll_nocopy(_, _, _, _)
StampAll_nocopy(h, time, trans, acc) ==
    IF Len(trans) = 0 THEN [heap |-> h, trans |-> acc]
    ELSE StampAll_nocopy([h EXCEPT ![Head(trans)].time = time], time,
                         Tail(trans), Append(acc, Head(trans)))

\* the loop of the two constructors: deepcopy(t), copy_line.time = time,
\* trans.append(copy_line)
RECURSIVE StampAll(_, _, _, _)
StampAll(h, time, trans, acc) ==
    IF Len(trans) = 0 THEN [heap |-> h, trans |-> acc]
    ELSE LET copy_line == [h[Head(trans)] EXCEPT !.time = time]
         IN  StampAll(Append(h, copy_line), time, Tail(trans),
                      Append(acc, Len(h) + 1))

\* the CombinedLyricLine whose translations are the copies stamped in r
CombinedOf(r, origin, time) ==
    [heap |-> r.heap,
     obj  |-> [kind |-> "CombinedLyricLine", origin |-> origin,
               time |-> time, trans |-> r.trans]]

\* CombinedLyricLine.__init__(origin, *trans): the heap after it and the
\* object constructed
CombinedLyricLine(h, origin, trans) ==
    CombinedOf(StampAll(h, h[origin].time, trans, <<>>), origin, h[origin].time)

\* a CombinedLyricLine.__str__ that does not leave out the empty translations
CombinedStr_keepempty(h, c) ==
    IF h[c.origin].texts = <<>>
    THEN <<"[">> \o TimeStr(c.time) \o <<"]">> \o h[c.origin].texts
    ELSE Join(<<LineStr(h[c.origin])>>
              \o [i \in 1..Len(c.trans) |-> LineStr(h[c.trans[i]])], <<"\n">>)

\* CombinedLyricLine.__str__
CombinedStr(h, c) ==
    IF h[c.origin].texts = <<>>
    THEN <<"[">> \o TimeStr(c.time) \o <<"]">> \o h[c.origin].texts
    ELSE LET shown == SelectSeq(c.trans, LAMBDA t : h[t].texts # <<>>)
         IN  Join(<<LineStr(h[c.origin])>>
                  \o [i \in 1..Len(shown) |-> LineStr(h[shown[i]])], <<"\n">>)

\* TimedCharacter.__init__ and __str__
TimedCharacter(time, character) == [time |-> time, character |-> character]
CharStr(ch) == <<"[">> \o TimeStr(ch.time) \o <<"]">> \o ch.character

\* "".join(parts)
RECURSIVE Concat(_)
Concat(parts) == IF Len(parts) = 0 THEN <<>> ELSE Head(parts) \o Concat(Tail(parts))

\* EnhancedLyricLine.__init__, start_time, end_time, text, __str__
EnhancedLyricLine(characters) ==
    [characters |-> characters, end_time_override |-> None]
start_time(e) == IF Len(e.characters) = 0 THEN None ELSE e.characters[1].time
end_time(e) ==
    IF e.end_time_override # None THEN e.end_time_override
    ELSE IF Len(e.characters) = 0 THEN None
    ELSE e.characters[Len(e.characters)].time
text(e) == Concat([i \in 1..Len(e.characters) |-> e.characters[i].character])
EnhancedStr(e) == Concat([i \in 1..Len(e.characters) |-> CharStr(e.characters[i])])

\* the EnhancedCombinedLyricLine whose translations are the copies stamped in r
EnhancedCombinedOf(r, origin) ==
    [heap |-> r.heap,
     obj  |-> [kind |-> "EnhancedCombinedLyricLine", origin |-> origin,
               start_time |-> start_time(origin),
               end_time |-> end_time(origin), trans |-> r.trans]]

\* EnhancedCombinedLyricLine.__init__(origin, *trans)
EnhancedCombinedLyricLine(h, origin, trans) ==
    EnhancedCombinedOf(StampAll(h, start_time(origin), trans, <<>>), origin)

\* EnhancedCombinedLyricLine.__str__
EnhancedCombinedStr(h, c) ==
    IF text(c.origin) = <<>>
    THEN <<"[">> \o TimeStr(c.start_time) \o <<"]">> \o text(c.origin)
    ELSE LET shown == SelectSeq(c.trans, LAMBDA t : h[t].texts # <<>>)
         IN  Join(<<EnhancedStr(c.origin)>>
                  \o [i \in 1..Len(shown) |-> LineStr(h[shown[i]])], <<"\n">>)

\* str() of either combined line
StrOf(h, c) ==
    IF c.kind = "CombinedLyricLine" THEN CombinedStr(h, c)
    ELSE EnhancedCombinedStr(h, c)

(***************************************************************************)
(* The combined-line specification: a caller holds some LyricLine objects  *)
(* and some enhanced lines, and constructs combined lines from them, one   *)
(* call after the other; the same object may be passed to several calls.   *)
(***************************************************************************)

MaxCalls == 2
MaxTransArgs == 2

\* the caller's LyricLine objects, in the heap from the start
PoolLines ==
    << LyricLine(12339, <<"x">>),
       LyricLine(12341, <<>>),
       LyricLine(754000, <<"H", "i">>) >>

\* the objects of the caller that it passes as translations
TransPool == {1, 2}

\* the objects of the caller that it passes as origins: one with an empty
\* text, one with a text
OriginPool == {2, 3}

\* the caller's enhanced lines
EnhancedOrigins ==
    { EnhancedLyricLine(<<TimedCharacter(19845, <<"a">>), TimedCharacter(20084, <<>>)>>),
      EnhancedLyricLine(<<TimedCharacter(20700, <<>>)>>),
      EnhancedLyricLine(<<>>) }

\* the sequences of at most n elements of S
RECURSIVE SeqsUpTo(_, _)
SeqsUpTo(S, n) ==
    IF n = 0 THEN {<<>>}
    ELSE LET shorter == SeqsUpTo(S, n - 1)
         IN  shorter \cup {Append(q, x) : q \in shorter, x \in S}

InitCombine ==
    /\ pc = "start"
    /\ call = <<>>
    /\ heap = PoolLines
    /\ ret = [objs |-> <<>>, strs |-> <<>>]

\* CombinedLyricLine(origin, *trans) on objects of the caller
NewCombined ==
    /\ pc = "start"
    /\ Len(call) < MaxCalls
    /\ \E origin \in OriginPool,
          trans \in SeqsUpTo(TransPool, MaxTransArgs) :
          \E r \in {CombinedLyricLine(heap, origin, trans)} :
              /\ heap' = r.heap
              /\ ret' = [ret EXCEPT !.objs = Append(@, r.obj)]
              /\ call' = Append(call, [origin |-> origin, trans |-> trans])
    /\ UNCHANGED pc

\* EnhancedCombinedLyricLine(origin, *trans) on objects of the caller
NewEnhancedCombined ==
    /\ pc = "start"
    /\ Len(call) < MaxCalls
    /\ \E origin \in EnhancedOrigins,
          trans \in SeqsUpTo(TransPool, MaxTransArgs) :
          \E r \in {EnhancedCombinedLyricLine(heap, origin, trans)} :
              /\ heap' = r.heap
              /\ ret' = [ret EXCEPT !.objs = Append(@, r.obj)]
              /\ call' = Append(call, [origin |-> origin, trans |-> trans])
    /\ UNCHANGED pc

\* str() of every combined line constructed
Str ==
    /\ pc = "start"
    /\ Len(ret.objs) > 0
    /\ ret' = [ret EXCEPT !.strs = List([k \in 1..Len(ret.objs) |->
                                            StrOf(heap, ret.objs[k])])]
    /\ pc' = "printed"
    /\ UNCHANGED <<call, heap>>

NextCombine == NewCombined \/ NewEnhancedCombined \/ Str

SpecCombine == InitCombine /\ [][NextCombine]_vars

(***************************************************************************)
(* The parsers (parser/lrc_parser.py) and the documents.                   *)
(***************************************************************************)

\* the positions of s where a line boundary of str.splitlines() ends: a
\* line break character, "\r\n" being one boundary that ends at its "\n"
BoundaryEnds(s) ==
    {i \in 1..Len(s) :
        /\ s[i] \in LineBreaks
        /\ ~(s[i] = "\r" /\ i < Len(s) /\ s[i + 1] = "\n")}

\* the position where the boundary that ends at position i starts
BoundaryStart(s, i) ==
    IF s[i] = "\n" /\ i > 1 /\ s[i - 1] = "\r" THEN i - 1 ELSE i

\* the k-th element of a set of numbers, in increasing order
Nth(S, k) == CHOOSE i \in S : Cardinality({j \in S : j <= i}) = k

\* the least and the greatest element of a set of numbers
Least(S) == CHOOSE i \in S : \A j \in S : i <= j
Greatest(S) == CHOOSE i \in S : \A j \in S : j <= i

\* str.splitlines(): the lines between the boundaries, and the characters
\* after the last boundary when there are any
SplitLines(s) ==
    LET ends == BoundaryEnds(s)
        n == Cardinality(ends)
        last == IF n = 0 THEN 0 ELSE Nth(ends, n)
        first(k) == IF k = 1 THEN 1 ELSE Nth(ends, k - 1) + 1
    IN  List([k \in 1..(IF last < Len(s) THEN n + 1 ELSE n) |->
                 IF k <= n
                 THEN SubSeq(s, first(k), BoundaryStart(s, Nth(ends, k)) - 1)
                 ELSE SubSeq(s, first(k), Len(s))])

\* str.strip()
Strip(s) ==
    LET kept == {i \in 1..Len(s) : s[i] \notin Whitespace}
    IN  IF kept = {} THEN <<>> ELSE SubSeq(s, Least(kept), Greatest(kept))

\* the position of the first "]" of line at or after p, 0 when there is none
FirstClose(line, p) ==
    LET closes == {q \in p..Len(line) : line[q] = "]"}
    IN  IF closes = {} THEN 0 ELSE Least(closes)

\* re.match(r"\[([a-zA-Z]{2,3}):([^]]+)]", line): the match at the start
\* of the line, with its two groups
MatchTag(line) ==
    LET n == IF Len(line) >= 5 /\ line[2] \in Letters /\ line[3] \in Letters
                  /\ line[4] \in Letters /\ line[5] = ":" THEN 3
             ELSE IF Len(line) >= 4 /\ line[2] \in Letters /\ line[3] \in Letters
                  /\ line[4] = ":" THEN 2
             ELSE 0
        q == FirstClose(line, n + 3)
    IN  IF Len(line) >= 1 /\ line[1] = "[" /\ n > 0 /\ q > n + 3
        THEN [ok |-> TRUE, tag |-> SubSeq(line, 2, n + 1),
              value |-> SubSeq(line, n + 3, q - 1)]
        ELSE [ok |-> FALSE, tag |-> <<>>, value |-> <<>>]

\* LyricMeta.__init__ and __str__
LyricMeta(tag, value) == [tag |-> tag, value |-> value]
MetaStr(m) == <<"[">> \o m.tag \o <<":">> \o m.value \o <<"]">>

\* the number of fraction digits, 1 to 3, that "]" follows at position p + 7
\* of line, 0 when there is none
FractionDigits(line, p) ==
    LET dig(i) == i <= Len(line) /\ line[i] \in Digits
        close(i) == i <= Len(line) /\ line[i] = "]"
    IN  IF dig(p + 7) /\ close(p + 8) THEN 1
        ELSE IF dig(p + 7) /\ dig(p + 8) /\ close(p + 9) THEN 2
        ELSE IF dig(p + 7) /\ dig(p + 8) /\ dig(p + 9) /\ close(p + 10) THEN 3
        ELSE 0

\* \[(\d{2}):(\d{2})\.(\d{1,3})] matched at position p of line: the three
\* groups and the position of the closing bracket
MatchTimeAt(line, p) ==
    LET k == FractionDigits(line, p)
    IN  IF /\ p + 8 <= Len(line)
           /\ line[p] = "["
           /\ line[p + 1] \in Digits /\ line[p + 2] \in Digits
           /\ line[p + 3] = ":"
           /\ line[p + 4] \in Digits /\ line[p + 5] \in Digits
           /\ line[p + 6] = "."
           /\ k > 0
        THEN [ok |-> TRUE, minute |-> SubSeq(line, p + 1, p + 2),
              sec |-> SubSeq(line, p + 4, p + 5),
              msec |-> SubSeq(line, p + 7, p + 6 + k), close |-> p + 7 + k]
        ELSE [ok |-> FALSE, minute |-> <<>>, sec |-> <<>>, msec |-> <<>>,
              close |-> 0]

\* the first position at or after p where the timestamp pattern matches,
\* 0 when there is none
SearchTime(line, p) ==
    LET found == {q \in p..Len(line) : MatchTimeAt(line, q).ok}
    IN  IF found = {} THEN 0 ELSE Least(found)

\* re.findall(r"\[(\d{2}):(\d{2})\.(\d{1,3})](.*)", line)[0]: the first
\* match anywhere in the line, its text running to the end of the line
FirstTimeText(line) ==
    LET p == SearchTime(line, 1)
        m == MatchTimeAt(line, p)
    IN  IF p = 0 THEN [ok |-> FALSE, minute |-> <<>>, sec |-> <<>>,
                       msec |-> <<>>, text |-> <<>>]
        ELSE [ok |-> TRUE, minute |-> m.minute, sec |-> m.sec, msec |-> m.msec,
              text |-> SubSeq(line, m.close + 1, Len(line))]

\* the body of the loop of StandardLRCParser.parse for one physical line:
\* what it appends to meta or to lines, or the exception of LRCTime
ParseLine(physical) ==
    LET line == Strip(physical)
        tag_match == MatchTag(line)
        time_text_match == FirstTimeText(line)
        lrc_time == LRCTimeInit(time_text_match.minute, time_text_match.sec,
                                LJust(time_text_match.msec, 3, "0"))
    IN  IF tag_match.ok
        THEN [kind |-> "meta", meta |-> LyricMeta(tag_match.tag, tag_match.value)]
        ELSE IF ~time_text_match.ok THEN [kind |-> "skip"]
        ELSE IF lrc_time.exc # NoExc THEN [kind |-> "raise", exc |-> lrc_time.exc]
        ELSE [kind |-> "line",
              line |-> LyricLine(lrc_time.time, time_text_match.text)]

\* StandardLRCParser.parse from physical line i on
RECURSIVE ParseFrom(_, _, _, _)
ParseFrom(physicals, i, lines, meta) ==
    IF i > Len(physicals) THEN [exc |-> NoExc, lines |-> lines, meta |-> meta]
    ELSE LET r == ParseLine(physicals[i])
         IN  IF r.kind = "meta"
             THEN ParseFrom(physicals, i + 1, lines, Append(meta, r.meta))
             ELSE IF r.kind = "line"
             THEN ParseFrom(physicals, i + 1, Append(lines, r.line), meta)
             ELSE IF r.kind = "raise"
             THEN [exc |-> r.exc, lines |-> <<>>, meta |-> <<>>]
             ELSE ParseFrom(physicals, i + 1, lines, meta)

\* StandardLRCParser.parse: the document's lines and meta, or the exception
StandardParse(s) == ParseFrom(SplitLines(s), 1, <<>>, <<>>)

(***************************************************************************)
(* The parse specification: a caller hands a text of some physical lines   *)
(* to StandardLRCParser.parse.                                             *)
(***************************************************************************)

MaxParseLines == 2

\* the physical lines the texts are made of: timed lines with one to three
\* fraction digits, with text before the timestamp, with further brackets,
\* with blanks around, with seconds out of range; a tag; lines of no shape
ParseLineChoices ==
    {
        <<"[", "0", "0", ":", "0", "1", ".", "5", "]", "a">>,
        <<"x", "[", "0", "0", ":", "0", "2", ".", "5", "0", "]", "b">>,
        <<"[", "0", "0", ":", "0", "3", ".", "0", "0", "0", "]", "c", "[", "0",
          "0", ":", "0", "4", ".", "0", "0", "0", "]", "d">>,
        <<"[", "a", "r", ":", "M", "e", "]">>,
        <<"h", "e", "l", "l", "o">>,
        <<" ", " ", "[", "0", "0", ":", "0", "5", ".", "1", "2", "]", "e", " ">>,
        <<"[", "0", "0", ":", "7", "5", ".", "0", "0", "]", "f">>,
        <<"y", "[", "0", "0", ":", "6", "1", ".", "0", "]", "g">>,
        <<"[", "0", ":", "0", "1", ".", "5", "]", "h">>,
        <<>>,
        <<"[", "0", "0", ":", "0", "6", ".", "1", "2", "3", "4", "]", "i">>
    }

InitParse ==
    /\ pc = "start"
    /\ \E physicals \in SeqsUpTo(ParseLineChoices, MaxParseLines) :
          call = [text |-> Join(physicals, <<"\n">>)]
    /\ heap = <<>>
    /\ ret = <<>>

\* StandardLRCParser.parse(text)
Parse ==
    /\ pc = "start"
    /\ ret' = StandardParse(call.text)
    /\ pc' = "done"
    /\ UNCHANGED <<call, heap>>

NextParse == Parse

SpecParse == InitParse /\ [][NextParse]_vars

(***************************************************************************)
(* The enhanced parser and document (parser/lrc_parser.py,                 *)
(* enhanced_model.py).                                                     *)
(***************************************************************************)

\* the end of the run of [^\[\]]* that starts at position p of line: the
\* position of its last character, p - 1 when the run is empty
RunEnd(line, p) ==
    LET brackets == {q \in p..Len(line) : line[q] \in {"[", "]"}}
    IN  IF brackets = {} THEN Len(line) ELSE Least(brackets) - 1

\* re.findall(r"\[(\d{2}):(\d{2})\.(\d{1,3})\]([^\[\]]*)", line) from
\* position p on: the groups of the matches, left to right, not overlapping
RECURSIVE FindAllFrom(_, _)
FindAllFrom(line, p) ==
    IF p > Len(line) THEN <<>>
    ELSE LET m == MatchTimeAt(line, p)
             e == RunEnd(line, m.close + 1)
         IN  IF m.ok
             THEN <<[minutes |-> m.minute, seconds |-> m.sec,
                     milliseconds |-> m.msec,
                     char |-> SubSeq(line, m.close + 1, e)]>>
                  \o FindAllFrom(line, e + 1)
             ELSE FindAllFrom(line, p + 1)

\* TimedCharacter.standard_parse for each match: the characters, or the
\* exception of the first LRCTime that raises
RECURSIVE StandardParseAll(_, _, _)
StandardParseAll(matches, i, characters) ==
    IF i > Len(matches) THEN [exc |-> NoExc, characters |-> characters]
    ELSE LET current_time == LRCTimeInit(matches[i].minutes, matches[i].seconds,
                                         matches[i].milliseconds)
         IN  IF current_time.exc # NoExc
             THEN [exc |-> current_time.exc, characters |-> <<>>]
             ELSE StandardParseAll(matches, i + 1,
                      Append(characters,
                             TimedCharacter(current_time.time, matches[i].char)))

\* EnhancedLyricLine.from_string
from_string(line_str) ==
    LET r == StandardParseAll(FindAllFrom(line_str, 1), 1, <<>>)
    IN  [exc |-> r.exc, line |-> EnhancedLyricLine(r.characters)]

\* the body of the loop of EnhancedLyricParser.parse for one physical line
EnhancedParseLine(physical) ==
    LET line == Strip(physical)
        tag_match == MatchTag(line)
        time_text_match == FindAllFrom(line, 1)
        made == from_string(line)
    IN  IF tag_match.ok
        THEN [kind |-> "meta", meta |-> LyricMeta(tag_match.tag, tag_match.value)]
        ELSE IF time_text_match = <<>> THEN [kind |-> "skip"]
        ELSE IF made.exc # NoExc THEN [kind |-> "raise", exc |-> made.exc]
        ELSE [kind |-> "line", line |-> made.line]

\* EnhancedLyricParser.parse from physical line i on
RECURSIVE EnhancedParseFrom(_, _, _, _)
EnhancedParseFrom(physicals, i, lines, meta) ==
    IF i > Len(physicals) THEN [exc |-> NoExc, lines |-> lines, meta |-> meta]
    ELSE LET r == EnhancedParseLine(physicals[i])
         IN  IF r.kind = "meta"
             THEN EnhancedParseFrom(physicals, i + 1, lines, Append(meta, r.meta))
             ELSE IF r.kind = "line"
             THEN EnhancedParseFrom(physicals, i + 1, Append(lines, r.line), meta)
             ELSE IF r.kind = "raise"
             THEN [exc |-> r.exc, lines |-> <<>>, meta |-> <<>>]
             ELSE EnhancedParseFrom(physicals, i + 1, lines, meta)

\* EnhancedLyricParser.parse: the document's lines and meta, or the exception
EnhancedParse(s) == EnhancedParseFrom(SplitLines(s), 1, <<>>, <<>>)

\* a to_lrc that puts the lines before the metadata
EnhancedToLrc_linesfirst(doc) ==
    Join([i \in 1..Len(doc.lines) |-> EnhancedStr(doc.lines[i])]
         \o [i \in 1..Len(doc.meta) |-> MetaStr(doc.meta[i])], <<"\n">>)

\* EnhancedLyricDocument.to_lrc (of a document of enhanced lines)
EnhancedToLrc(doc) ==
    Join([i \in 1..Len(doc.meta) |-> MetaStr(doc.meta[i])]
         \o [i \in 1..Len(doc.lines) |-> EnhancedStr(doc.lines[i])], <<"\n">>)

(***************************************************************************)
(* The enhanced specification: a caller hands a text to                    *)
(* EnhancedLyricParser.parse and serializes the document with to_lrc.      *)
(***************************************************************************)

MaxEnhancedLines == 2

\* the physical lines the texts are made of: a tag, runs of segments with
\* three, two or one fraction digits, an empty text, a blank inside and at
\* the end, seconds out of range, a line of no shape, a carriage return
EnhancedLineChoices ==
    {
        <<"[", "t", "i", ":", "S", "o", "n", "g", "]">>,
        <<"[", "0", "0", ":", "1", "9", ".", "8", "4", "5", "]", "a", "[", "0",
          "0", ":", "2", "0", ".", "0", "8", "4", "]", "b", "[", "0", "0", ":",
          "2", "1", ".", "6", "8", "5", "]">>,
        <<"[", "0", "0", ":", "0", "1", ".", "5", "]", "c">>,
        <<"[", "0", "0", ":", "0", "2", ".", "0", "0", "0", "]">>,
        <<"[", "0", "0", ":", "0", "3", ".", "0", "0", "0", "]", "d", " ", "e">>,
        <<"[", "0", "0", ":", "0", "4", ".", "0", "0", "0", "]", "f", " ">>,
        <<"[", "0", "0", ":", "6", "1", ".", "0", "0", "0", "]", "g">>,
        <<"h", "e", "l", "l", "o">>,
        <<"[", "0", "0", ":", "0", "5", ".", "0", "0", "0", "]", "h", "\r",
          "i">>
    }

InitEnhanced ==
    /\ pc = "start"
    /\ \E physicals \in SeqsUpTo(EnhancedLineChoices, MaxEnhancedLines),
          last \in {<<>>, <<"\n">>} :
          call = [text |-> Join(physicals, <<"\n">>) \o last]
    /\ heap = <<>>
    /\ ret = <<>>

\* EnhancedLyricParser.parse(text).to_lrc()
ParseToLrc ==
    /\ pc = "start"
    /\ LET doc == EnhancedParse(call.text)
       IN  ret' = [exc |-> doc.exc,
                   lrc |-> IF doc.exc = NoExc THEN EnhancedToLrc(doc) ELSE <<>>]
    /\ pc' = "done"
    /\ UNCHANGED <<call, heap>>

NextEnhanced == ParseToLrc

SpecEnhanced == InitEnhanced /\ [][NextEnhanced]_vars

(***************************************************************************)
(* The multi-source merge (StandardLRCParser.parse_with_translate).        *)
(***************************************************************************)

\* an insertion before the first element whose time is less: a sort in
\* descending order
InsertPosition_descending(before, times, n) ==
    LET later == {k \in 1..Len(before) : times[n] > times[before[k]]}
        at == IF later = {} THEN Len(before) + 1
              ELSE CHOOSE i \in later : \A j \in later : i <= j
    IN  SubSeq(before, 1, at - 1) \o <<n>> \o SubSeq(before, at, Len(before))

\* the sorted positions `before` of the first n - 1 elements with position n
\* inserted before the first one whose time is greater than its own
InsertPosition(before, times, n) ==
    LET later == {k \in 1..Len(before) : times[n] < times[before[k]]}
        at == IF later = {} THEN Len(before) + 1 ELSE Least(later)
    IN  SubSeq(before, 1, at - 1) \o <<n>> \o SubSeq(before, at, Len(before))

\* list.sort() by the time of each element: the positions 1..Len(times) in
\* sorted order.  Each position is inserted before the first one that it is
\* less than (__lt__ compares the times), so equal times keep their order.
RECURSIVE SortedPositions(_)
SortedPositions(times) ==
    IF Len(times) = 0 THEN <<>>
    ELSE InsertPosition(SortedPositions(SubSeq(times, 1, Len(times) - 1)),
                        times, Len(times))

\* lines.sort() of a list of LyricLine objects
SortLines(h, ids) ==
    LET order == SortedPositions([k \in 1..Len(ids) |-> h[ids[k]].time])
    IN  List([k \in 1..Len(ids) |-> ids[order[k]]])

\* final.lines.sort() of a list of combined lines
SortCombined(lines) ==
    LET order == SortedPositions([k \in 1..Len(lines) |-> lines[k].time])
    IN  List([k \in 1..Len(lines) |-> lines[order[k]]])

\* a tolerance test with < in place of <=
InTolerance_strict(h, x, o, interval) ==
    Abs(total_milliseconds(h[x].time) - total_milliseconds(h[o].time)) < interval

\* abs(x.time.total_milliseconds - o.time.total_milliseconds) <= interval
InTolerance(h, x, o, interval) ==
    Abs(total_milliseconds(h[x].time) - total_milliseconds(h[o].time)) <= interval

\* available_tran: the lines of one translation document within tolerance
available_tran(h, o, t_lines, interval) ==
    SelectSeq(t_lines, LAMBDA x : InTolerance(h, x, o, interval))

\* a choice of the last line within tolerance
Chosen_last(available) ==
    IF Len(available) > 0 THEN <<available[Len(available)]>> ELSE <<>>

\* if len(available_tran) > 0: available_trans.append(available_tran[0])
Chosen(available) ==
    IF Len(available) > 0 THEN <<available[1]>> ELSE <<>>

\* available_trans: the loop over the translation documents for origin o
available_trans(h, o, parsed_trans, interval) ==
    Concat([d \in 1..Len(parsed_trans) |->
               Chosen(available_tran(h, o, parsed_trans[d], interval))])

\* a combination that attaches no placeholder
Combine_noplaceholder(h, o, available) ==
    CombinedLyricLine(h, o, available)

\* the combined line of origin o: with a fresh empty line when no
\* translation was found, with the translations found otherwise
Combine(h, o, available) ==
    IF available = <<>>
    THEN LET h1 == Append(h, empty_line)
         IN  CombinedLyricLine(h1, o, <<Len(h1)>>)
    ELSE CombinedLyricLine(h, o, available)

\* the loop over the sorted origin lines, from the k-th on; r is the
\* combined line constructed for the k-th and the heap after it
RECURSIVE MergeFrom(_, _, _, _, _, _)
MergeNext(r, origin_lines, k, parsed_trans, interval, final_lines) ==
    MergeFrom(r.heap, origin_lines, k + 1, parsed_trans, interval,
              Append(final_lines, r.obj))

MergeFrom(h, origin_lines, k, parsed_trans, interval, final_lines) ==
    IF k > Len(origin_lines) THEN [heap |-> h, lines |-> final_lines]
    ELSE MergeNext(Combine(h, origin_lines[k],
                           available_trans(h, origin_lines[k], parsed_trans,
                                           interval)),
                   origin_lines, k, parsed_trans, interval, final_lines)

\* the objects of the parsed documents in a heap: the lines of the origin
\* first, then those of each translation document
AllParsedLines(parsed_origin, parsed_trans) ==
    parsed_origin.lines
    \o Concat([d \in 1..Len(parsed_trans) |-> parsed_trans[d].lines])

\* the ids of the lines of the d-th translation document in that heap
TransIds(parsed_origin, parsed_trans, d) ==
    LET base == Len(parsed_origin.lines)
                + Len(Concat([e \in 1..(d - 1) |-> parsed_trans[e].lines]))
    IN  List([i \in 1..Len(parsed_trans[d].lines) |-> base + i])

\* final = StandardLyricDocument(final_lines, parsed_origin.meta);
\* final.lines.sort(); return final
FinalDocument(merged, meta) ==
    [heap |-> merged.heap, exc |-> NoExc,
     lines |-> SortCombined(merged.lines), meta |-> meta]

\* parse_with_translate once the texts are parsed into the heap h0: the two
\* sorts, the loop over the origin lines and the final document
MergeParsed(h0, parsed_origin, parsed_trans, interval) ==
    FinalDocument(
        MergeFrom(h0,
                  SortLines(h0, List([i \in 1..Len(parsed_origin.lines) |-> i])),
                  1,
                  List([d \in 1..Len(parsed_trans) |->
                           SortLines(h0, TransIds(parsed_origin, parsed_trans, d))]),
                  interval, <<>>),
        parsed_origin.meta)

\* parse_with_translate from the parsed documents on; an exception of a
\* parse leaves it at once
MergeDocuments(parsed_origin, parsed_trans, interval) ==
    IF parsed_origin.exc # NoExc
       \/ \E d \in 1..Len(parsed_trans) : parsed_trans[d].exc # NoExc
    THEN [heap |-> <<>>, exc |-> "ValueError", lines |-> <<>>, meta |-> <<>>]
    ELSE MergeParsed(AllParsedLines(parsed_origin, parsed_trans),
                     parsed_origin, parsed_trans, interval)

\* StandardLRCParser.parse_with_translate(origin, interval, *trans): the
\* heap after it and the document returned, or the exception of a parse
parse_with_translate(origin, interval, trans) ==
    MergeDocuments(StandardParse(origin),
                   List([d \in 1..Len(trans) |-> StandardParse(trans[d])]),
                   interval)

\* StandardLyricDocument.to_lrc (of a document of combined lines)
StandardToLrc(h, doc) ==
    Join([i \in 1..Len(doc.meta) |-> MetaStr(doc.meta[i])]
         \o [i \in 1..Len(doc.lines) |-> CombinedStr(h, doc.lines[i])], <<"\n">>)

(***************************************************************************)
(* The merge specification: a caller hands an origin text, an interval and *)
(* some translation texts to parse_with_translate.                         *)
(***************************************************************************)

\* the physical lines of all the texts of a call, together
MaxInputLines == 3
\* the translation texts of a call
MaxTrans == 2
\* the interval of a call, in milliseconds
MaxInterval == 1

\* the physical lines of an origin text: a line with text, a line with an
\* empty text one millisecond later, a line at the time of the first written
\* with two fraction digits, a tag
OriginLineChoices ==
    {
        <<"[", "0", "0", ":", "1", "2", ".", "3", "4", "0", "]", "H", "e", "l",
          "l", "o", " ", "w", "o", "r", "l", "d">>,
        <<"[", "0", "0", ":", "1", "2", ".", "3", "4", "1", "]">>,
        <<"[", "0", "0", ":", "1", "2", ".", "3", "4", "]", "b">>,
        <<"[", "a", "r", ":", "A", "]">>
    }

\* the physical lines of a translation text: a line one millisecond before
\* the first origin line, two lines at its time, a tag
TransLineChoices ==
    {
        <<"[", "0", "0", ":", "1", "2", ".", "3", "3", "9", "]", "x">>,
        <<"[", "0", "0", ":", "1", "2", ".", "3", "4", "]", "y">>,
        <<"[", "0", "0", ":", "1", "2", ".", "3", "4", "0", "]", "z">>,
        <<"[", "t", "i", ":", "B", "]">>
    }

\* the sequences of exactly n elements of S
SeqsOfLen(S, n) == {q \in SeqsUpTo(S, n) : Len(q) = n}

\* the tuples of n translation texts of at most budget physical lines together
RECURSIVE TransTexts(_, _)
TransTexts(n, budget) ==
    IF n = 0 THEN {<<>>}
    ELSE UNION { { <<Join(physicals, <<"\n">>)>> \o rest :
                       physicals \in SeqsOfLen(TransLineChoices, k),
                       rest \in TransTexts(n - 1, budget - k) } :
                 k \in 0..budget }

InitMerge ==
    /\ pc = "start"
    /\ \E k \in 0..MaxInputLines, n \in 0..MaxTrans, interval \in 0..MaxInterval :
          \E physicals \in SeqsOfLen(OriginLineChoices, k),
             trans \in TransTexts(n, MaxInputLines - k) :
             call = [origin |-> Join(physicals, <<"\n">>),
                     interval |-> interval, trans |-> trans]
    /\ heap = <<>>
    /\ ret = <<>>

\* StandardLRCParser.parse_with_translate(origin, interval, *trans)
Merge ==
    /\ pc = "start"
    /\ \E r \in {parse_with_translate(call.origin, call.interval, call.trans)} :
          /\ heap' = r.heap
          /\ ret' = [exc |-> r.exc, lines |-> r.lines, meta |-> r.meta]
    /\ pc' = "done"
    /\ UNCHANGED call

\* StandardLyricDocument.to_lrc of the document returned
ToLrc ==
    /\ pc = "done"
    /\ ret.exc = NoExc
    /\ ret' = [exc |-> ret.exc, lines |-> ret.lines, meta |-> ret.meta,
               lrc |-> StandardToLrc(heap, ret)]
    /\ pc' = "rendered"
    /\ UNCHANGED <<call, heap>>

NextMerge == Merge \/ ToLrc

SpecMerge == InitMerge /\ [][NextMerge]_vars

(***************************************************************************)
(* The ordering specification: parse_with_translate on origin texts whose  *)
(* lines are out of order, share timestamps and carry several tags.        *)
(***************************************************************************)

\* the physical lines of an origin text
MaxOrderLines == 4

\* the physical lines of such an origin text: a late line, two lines at one
\* earlier time (one written with two fraction digits), two tags
OrderLineChoices ==
    {
        <<"[", "0", "0", ":", "0", "2", ".", "0", "0", "0", "]", "a">>,
        <<"[", "0", "0", ":", "0", "1", ".", "0", "0", "0", "]", "b">>,
        <<"[", "0", "0", ":", "0", "1", ".", "0", "0", "]", "c">>,
        <<"[", "a", "r", ":", "A", "]">>,
        <<"[", "t", "i", ":", "T", "]">>
    }

\* the translation texts of such a call: none, one text with a tag and a
\* line at the earlier time, or that text and another with a line at the
\* later time
OrderTransChoices ==
    {
        <<>>,
        << <<"[", "b", "y", ":", "X", "]", "\n",
             "[", "0", "0", ":", "0", "1", ".", "0", "0", "0", "]", "t">> >>,
        << <<"[", "b", "y", ":", "X", "]", "\n",
             "[", "0", "0", ":", "0", "1", ".", "0", "0", "0", "]", "t">>,
           <<"[", "0", "0", ":", "0", "2", ".", "0", "0", "0", "]", "u">> >>
    }

InitOrder ==
    /\ pc = "start"
    /\ \E physicals \in SeqsUpTo(OrderLineChoices, MaxOrderLines),
          trans \in OrderTransChoices :
          call = [origin |-> Join(physicals, <<"\n">>),
                  interval |-> 0, trans |-> trans]
    /\ heap = <<>>
    /\ ret = <<>>

SpecOrder == InitOrder /\ [][NextMerge]_vars

(***************************************************************************)
(* Properties                                                              *)
(***************************************************************************)

\* a part of a timestamp that is a string of digits: it has a character and
\* no character that is not a digit
DigitOnly(s) == s # <<>> /\ ~(\E i \in 1..Len(s) : s[i] \notin Digits)

\* the triple of the call is valid: digits only, seconds 0..59, milliseconds
\* 0..999 once right-padded to three digits
ValidTriple ==
    /\ DigitOnly(call.minutes) /\ DigitOnly(call.seconds)
    /\ DigitOnly(call.milliseconds)
    /\ ToInt(call.seconds) <= 59
    /\ ToInt(LJust(call.milliseconds, 3, "0")) <= 999

BeginsWithTimestamp(line) == MatchTimeAt(line, 1).ok

\* what the claim C10 has a physical line yield: its timed line when, trimmed,
\* it begins with a timestamp (the payload all text after it), nothing else
ClaimedLines(physical) ==
    LET line == Strip(physical)
        m == MatchTimeAt(line, 1)
    IN  IF ~MatchTag(line).ok /\ m.ok
        THEN <<LyricLine(LRCTimeInit(m.minute, m.sec, LJust(m.msec, 3, "0")).time,
                         SubSeq(line, m.close + 1, Len(line)))>>
        ELSE <<>>

\* no physical line of the text begins, trimmed, with a timestamp whose
\* seconds LRCTime refuses
NoRefusedTimestamp(physicals) ==
    \A i \in 1..Len(physicals) :
        LET line == Strip(physicals[i])
            m == MatchTimeAt(line, 1)
        IN  (~MatchTag(line).ok /\ m.ok) => ToInt(m.sec) <= 59

\* C10: StandardLRCParser.parse yields a timed line for a trimmed physical
\* line only when the line begins with a [MM:SS.f{1,3}] timestamp, its payload
\* all text after that first timestamp; every other line that is not metadata
\* is skipped, contributing no line and raising no error.
C10_TimedLineOnlyAtLineStart ==
    LET physicals == SplitLines(call.text)
    IN  (pc = "done" /\ NoRefusedTimestamp(physicals)) =>
            /\ ret.exc = NoExc
            /\ ret.lines = Concat([i \in 1..Len(physicals) |->
                                       ClaimedLines(physicals[i])])

\* the pieces of s between its "\n" characters (s.split("\n"))
PlainLines(s) ==
    LET ends == {i \in 1..Len(s) : s[i] = "\n"}
        n == Cardinality(ends)
    IN  List([k \in 1..(n + 1) |->
                 SubSeq(s, IF k = 1 THEN 1 ELSE Nth(ends, k - 1) + 1,
                           IF k <= n THEN Nth(ends, k) - 1 ELSE Len(s))])

\* the line is a [tag:value] metadata line and nothing else
IsMetaLine(line) ==
    LET m == MatchTag(line)
    IN  m.ok /\ Len(line) = Len(m.tag) + Len(m.value) + 3

\* from position p to its end the line is a run of one or more
\* [MM:SS.f{1,3}]text segments, the texts free of brackets
RECURSIVE IsSegmentRun(_, _)
IsSegmentRun(line, p) ==
    LET m == MatchTimeAt(line, p)
        e == RunEnd(line, m.close + 1)
    IN  /\ p <= Len(line)
        /\ m.ok
        /\ (e = Len(line) \/ IsSegmentRun(line, e + 1))

\* a well-formed enhanced LRC text: each physical line is a metadata line or
\* a run of segments, no stray text
WellFormed(s) ==
    \A i \in 1..Len(PlainLines(s)) :
        IsMetaLine(PlainLines(s)[i]) \/ IsSegmentRun(PlainLines(s)[i], 1)

\* a well-formed text is canonical when every timestamp has three fraction
\* digits and seconds of 59 at most, every metadata line precedes every
\* timed line, no line ends with whitespace and the only line boundaries
\* are the "\n" between the lines
Canonical(s) ==
    LET ls == PlainLines(s)
    IN  /\ \A i \in 1..Len(ls) :
              \/ IsMetaLine(ls[i])
              \/ LET segs == FindAllFrom(ls[i], 1)
                 IN  \A j \in 1..Len(segs) :
                        /\ Len(segs[j].milliseconds) = 3
                        /\ ToInt(segs[j].seconds) <= 59
        /\ \A i, j \in 1..Len(ls) :
              (i < j /\ IsMetaLine(ls[j])) => IsMetaLine(ls[i])
        /\ \A i \in 1..Len(ls) :
              /\ ls[i] # <<>> => ls[i][Len(ls[i])] \notin Whitespace
              /\ \A k \in 1..Len(ls[i]) : ls[i][k] \notin LineBreaks

\* C5 as claimed: for every well-formed enhanced LRC text,
\* EnhancedLyricParser.parse(text).to_lrc() equals text, character for
\* character.
C5_EnhancedRoundTrip ==
    (pc = "done" /\ WellFormed(call.text)) =>
        ret.exc = NoExc /\ ret.lrc = call.text

\* C5 as amended: for every well-formed enhanced LRC text that is canonical
\* (three fraction digits and seconds <= 59 in every timestamp, metadata
\* lines before the timed lines, no line ending with whitespace, no line
\* boundary other than the "\n" between lines), parse(text).to_lrc() equals
\* text, character for character.
C5_CanonicalRoundTrip ==
    (pc = "done" /\ WellFormed(call.text) /\ Canonical(call.text)) =>
        ret.exc = NoExc /\ ret.lrc = call.text

\* a canonical text of a metadata line and a line of three segments has
\* been parsed and serialized
C5_Witness ==
    /\ pc = "done"
    /\ WellFormed(call.text) /\ Canonical(call.text)
    /\ Len(PlainLines(call.text)) = 2
    /\ IsMetaLine(PlainLines(call.text)[1])
    /\ Len(FindAllFrom(PlainLines(call.text)[2], 1)) = 3
    /\ ret.lrc = call.text

\* the text of the origin of the k-th call, and the start time every
\* translation of the line it constructed must carry
OriginText(k) ==
    IF ret.objs[k].kind = "CombinedLyricLine" THEN PoolLines[call[k].origin].texts
    ELSE text(call[k].origin)

OriginStart(k) ==
    IF ret.objs[k].kind = "CombinedLyricLine" THEN PoolLines[call[k].origin].time
    ELSE start_time(call[k].origin)

\* C6: constructing a combined line leaves every translation object passed to
\* it as it was (timestamp and text), also when the object is passed to several
\* calls with different origins, while the entries stored in every combined
\* line carry the start time of its origin and, in the same order, the texts
\* of the objects passed.
C6_CopyOnWrite ==
    /\ \A id \in 1..Len(PoolLines) : heap[id] = PoolLines[id]
    /\ \A k \in 1..Len(ret.objs) :
          /\ Len(ret.objs[k].trans) = Len(call[k].trans)
          /\ \A i \in 1..Len(ret.objs[k].trans) :
                /\ heap[ret.objs[k].trans[i]].time = OriginStart(k)
                /\ heap[ret.objs[k].trans[i]].texts = PoolLines[call[k].trans[i]].texts

\* the same translation object has been passed to a CombinedLyricLine and to
\* an EnhancedCombinedLyricLine whose origins start at different times
C6_Witness ==
    /\ Len(ret.objs) = 2
    /\ ret.objs[1].kind = "CombinedLyricLine"
    /\ ret.objs[2].kind = "EnhancedCombinedLyricLine"
    /\ OriginStart(1) # OriginStart(2)
    /\ \E i \in 1..Len(call[1].trans), j \in 1..Len(call[2].trans) :
          call[1].trans[i] = call[2].trans[j]

\* the timestamp of an origin in brackets
Bracketed(t) == <<"[">> \o TimeStr(t) \o <<"]">>

\* the string form of the origin of the k-th call
OriginLine(k) ==
    IF ret.objs[k].kind = "CombinedLyricLine"
    THEN Bracketed(PoolLines[call[k].origin].time) \o PoolLines[call[k].origin].texts
    ELSE EnhancedStr(call[k].origin)

\* the translations passed to the k-th call whose text is not empty
ShownTrans(k) == SelectSeq(call[k].trans, LAMBDA t : PoolLines[t].texts # <<>>)

\* C9: the string form of a combined line is, when the text of its origin is
\* empty, one physical line: the origin's timestamp in brackets and nothing
\* else, even if a translation has text; otherwise the origin's line followed,
\* in order, by one physical line for each translation whose text is not
\* empty, carrying the origin's timestamp; translations with an empty text
\* contribute no line.
C9_CombinedLineString ==
    \A k \in 1..Len(ret.strs) :
        LET physicals == PlainLines(ret.strs[k])
        IN  IF OriginText(k) = <<>>
            THEN physicals = <<Bracketed(OriginStart(k))>>
            ELSE /\ Len(physicals) = 1 + Len(ShownTrans(k))
                 /\ physicals[1] = OriginLine(k)
                 /\ \A i \in 1..Len(ShownTrans(k)) :
                       physicals[i + 1] = Bracketed(OriginStart(k))
                                          \o PoolLines[ShownTrans(k)[i]].texts

\* a combined line whose origin has an empty text and a translation with
\* text, and one whose origin has text and an empty translation followed by
\* one with text, have been constructed
C9_Witness ==
    /\ Len(ret.strs) = 2
    /\ OriginText(1) = <<>> /\ Len(ShownTrans(1)) = 1
    /\ OriginText(2) # <<>> /\ Len(call[2].trans) = 2 /\ Len(ShownTrans(2)) = 1
    /\ PoolLines[call[2].trans[1]].texts = <<>>

\* the merge has returned a document
Merged == pc \in {"done", "rendered"} /\ ret.exc = NoExc

\* the timed lines of the origin text, in the order of the text
OriginParsed == StandardParse(call.origin).lines

\* the timed lines of each translation text, in the order of the text; the
\* definitions below take them as docs
TransParsed == List([d \in 1..Len(call.trans) |-> StandardParse(call.trans[d]).lines])

\* the distance in milliseconds of line x from origin line o
Distance(x, o) == Abs(x.time - o.time)

\* the positions in the d-th translation text of the lines within the
\* interval of origin line o
Within(docs, d, o) ==
    {i \in 1..Len(docs[d]) : Distance(docs[d][i], o) <= call.interval}

\* position i comes before position j in the stable order by timestamp of
\* the d-th translation text
Before(docs, d, i, j) ==
    \/ docs[d][i].time < docs[d][j].time
    \/ docs[d][i].time = docs[d][j].time /\ i < j

\* the first position, in that order, of a line within the interval of o
FirstWithin(docs, d, o) ==
    CHOOSE i \in Within(docs, d, o) :
        \A j \in Within(docs, d, o) \ {i} : Before(docs, d, i, j)

\* the translation documents that have a line within the interval of o
Contributing(docs, o) == {d \in 1..Len(call.trans) : Within(docs, d, o) # {}}

\* the place among the translations of o of the line of document d
Slot(docs, d, o) == Cardinality({e \in Contributing(docs, o) : e <= d})

\* the texts of the translations stored in the combined line c
TransTextsOf(c) == [i \in 1..Len(c.trans) |-> heap[c.trans[i]].texts]

\* line x appears, with the timestamp of the origin, among the translations
\* of the combined line c (every text of TransLineChoices belongs to one
\* timestamp, so the text tells the line)
Selected(x, c) ==
    \E i \in 1..Len(c.trans) :
        /\ heap[c.trans[i]].texts = x.texts
        /\ heap[c.trans[i]].time = heap[c.origin].time

\* C1 as stated: for every origin line and every translation document, a
\* line exactly interval milliseconds from the origin line is selected, and a
\* line interval + 1 milliseconds from it is not.
C1_BoundarySelected ==
    Merged =>
        \A docs \in {TransParsed}, k \in 1..Len(ret.lines), d \in 1..Len(call.trans) :
            \A i \in 1..Len(docs[d]) :
                LET c == ret.lines[k]
                    x == docs[d][i]
                IN  /\ Distance(x, heap[c.origin]) = call.interval => Selected(x, c)
                    /\ Distance(x, heap[c.origin]) = call.interval + 1
                           => ~Selected(x, c)

\* C1, amended: a line exactly interval milliseconds from the origin line is
\* selected when it is the first line of its document, in the stable order by
\* timestamp, within the interval; a line interval + 1 milliseconds from the
\* origin line is never selected.
C1_BoundaryFirstSelected ==
    Merged =>
        \A docs \in {TransParsed}, k \in 1..Len(ret.lines), d \in 1..Len(call.trans) :
            \A i \in 1..Len(docs[d]) :
                LET c == ret.lines[k]
                    x == docs[d][i]
                IN  /\ (/\ Distance(x, heap[c.origin]) = call.interval
                        /\ i = FirstWithin(docs, d, heap[c.origin]))
                           => Selected(x, c)
                    /\ Distance(x, heap[c.origin]) = call.interval + 1
                           => ~Selected(x, c)

\* with an interval of one millisecond, one document has a line exactly one
\* millisecond before an origin line, which is selected, and another origin
\* line lies two milliseconds after that line
C1_Witness ==
    /\ Merged
    /\ call.interval = 1
    /\ \E docs \in {TransParsed}, k, m \in 1..Len(ret.lines), d \in 1..Len(call.trans) :
          \E i \in 1..Len(docs[d]) :
              /\ Distance(docs[d][i], heap[ret.lines[k].origin]) = 1
              /\ i = FirstWithin(docs, d, heap[ret.lines[k].origin])
              /\ Selected(docs[d][i], ret.lines[k])
              /\ Distance(docs[d][i], heap[ret.lines[m].origin]) = 2

\* C2: for each origin line, each translation document contributes at most
\* one line: a document with a line within the interval contributes the first
\* such line in its stable order by timestamp, which need not be the nearest,
\* and a document with none contributes nothing; the lines contributed are
\* stored in the order of the documents.
C2_FirstInTolerance ==
    Merged =>
        \A docs \in {TransParsed}, k \in 1..Len(ret.lines) :
            LET c == ret.lines[k]
                o == heap[c.origin]
            IN  /\ Contributing(docs, o) # {}
                      => Len(c.trans) = Cardinality(Contributing(docs, o))
                /\ \A d \in (1..Len(call.trans)) \ Contributing(docs, o) :
                      \A i \in 1..Len(docs[d]) :
                          ~Selected(docs[d][i], c)
                /\ \A d \in Contributing(docs, o) :
                      /\ Slot(docs, d, o) <= Len(c.trans)
                      /\ TransTextsOf(c)[Slot(docs, d, o)]
                            = docs[d][FirstWithin(docs, d, o)].texts
                      /\ heap[c.trans[Slot(docs, d, o)]].time = o.time

\* a document holds two lines within the interval of an origin line, the
\* nearer one written first, and the farther one, earlier in time, is the
\* one contributed
C2_Witness ==
    /\ Merged
    /\ \E docs \in {TransParsed}, k \in 1..Len(ret.lines), d \in 1..Len(call.trans) :
          LET o == heap[ret.lines[k].origin]
          IN  /\ Cardinality(Within(docs, d, o)) = 2
              /\ FirstWithin(docs, d, o) = 2
              /\ Distance(docs[d][1], o) < Distance(docs[d][2], o)
              /\ Selected(docs[d][2], ret.lines[k])
              /\ ~Selected(docs[d][1], ret.lines[k])

\* C3: the document returned has exactly one combined line for each timed
\* line of the origin text; a combined line for which no translation document
\* has a line within the interval carries exactly one translation, whose text
\* is empty, and every other combined line carries one translation for each
\* document that has such a line, between 1 and the number of documents.
C3_TotalAlignment ==
    Merged =>
        /\ \A parsed \in {OriginParsed} :
              /\ Len(ret.lines) = Len(parsed)
              /\ \A id \in 1..Len(parsed) :
                    /\ heap[id] = parsed[id]
                    /\ Cardinality({k \in 1..Len(ret.lines) :
                                       ret.lines[k].origin = id}) = 1
        /\ \A docs \in {TransParsed}, k \in 1..Len(ret.lines) :
              LET c == ret.lines[k]
                  o == heap[c.origin]
              IN  IF Contributing(docs, o) = {}
                  THEN TransTextsOf(c) = <<(<<>>)>>
                  ELSE /\ Len(c.trans) = Cardinality(Contributing(docs, o))
                       /\ 1 <= Len(c.trans)
                       /\ Len(c.trans) <= Len(call.trans)

\* of two origin lines and two translation documents, one origin line has a
\* line within the interval in one document only, the other in none
C3_Witness ==
    /\ Merged
    /\ Len(call.trans) = 2
    /\ Len(ret.lines) = 2
    /\ \E docs \in {TransParsed}, k, m \in 1..2 :
          /\ Cardinality(Contributing(docs, heap[ret.lines[k].origin])) = 1
          /\ Len(ret.lines[k].trans) = 1
          /\ Contributing(docs, heap[ret.lines[m].origin]) = {}
          /\ \E d \in 1..2 : Len(docs[d]) > 0

\* the origin text is one timed line with a text, and no line of a
\* translation text lies within the interval of it
LoneOriginUnmatched ==
    /\ pc = "rendered"
    /\ Len(SplitLines(call.origin)) = 1
    /\ Len(OriginParsed) = 1
    /\ OriginParsed[1].texts # <<>>
    /\ \A docs \in {TransParsed} : Contributing(docs, OriginParsed[1]) = {}

\* C4 as stated: an origin line with a text, merged with no translation line
\* within the interval, renders as the origin line followed by a second
\* physical line that is the bracketed timestamp of the origin alone.
C4_PlaceholderRendered ==
    LoneOriginUnmatched =>
        ret.lrc = call.origin \o <<"\n">> \o Bracketed(OriginParsed[1].time)

\* C4, amended: it renders as the origin line alone (timestamp with three
\* fraction digits, then the text); the empty placeholder adds no physical
\* line.
C4_PlaceholderSuppressed ==
    LoneOriginUnmatched =>
        ret.lrc = Bracketed(OriginParsed[1].time) \o OriginParsed[1].texts

\* "[00:12.340]Hello world" has been merged with interval 0 and a translation
\* text whose only line is one millisecond away, and rendered
C4_Witness ==
    /\ LoneOriginUnmatched
    /\ call.interval = 0
    /\ OriginParsed[1].time = 12340
    /\ Len(OriginParsed[1].texts) = 11
    /\ Len(call.trans) = 1
    /\ Len(TransParsed[1]) = 1
    /\ Len(ret.lines[1].trans) = 1

\* the metadata of the origin text, in the order of the text
OriginMeta == StandardParse(call.origin).meta

\* C11: the combined lines of the document returned are in non-decreasing
\* order of timestamp whatever the order of the lines of the origin text,
\* combined lines with equal timestamps are in the order in which their
\* origin lines were parsed, and the metadata is that of the origin text in
\* parse order, without the metadata of the translations.
C11_SortedStableOriginMeta ==
    Merged =>
        /\ \A parsed \in {OriginParsed} :
              /\ Len(ret.lines) = Len(parsed)
              /\ \A k \in 1..Len(ret.lines) :
                    /\ ret.lines[k].origin \in 1..Len(parsed)
                    /\ heap[ret.lines[k].origin] = parsed[ret.lines[k].origin]
                    /\ ret.lines[k].time = parsed[ret.lines[k].origin].time
        /\ \A k, m \in 1..Len(ret.lines) :
              k < m =>
                  \/ ret.lines[k].time < ret.lines[m].time
                  \/ /\ ret.lines[k].time = ret.lines[m].time
                     /\ ret.lines[k].origin < ret.lines[m].origin
        /\ ret.meta = OriginMeta

\* an origin text with a tag, a late line and then two lines at one earlier
\* time has been merged with a translation text that has a tag: the two
\* lines come first, in the order of the text
C11_Witness ==
    /\ Merged
    /\ Len(call.trans) >= 1
    /\ Len(StandardParse(call.trans[1]).meta) = 1
    /\ Len(ret.meta) = 1
    /\ Len(ret.lines) = 3
    /\ ret.lines[1].origin = 2 /\ ret.lines[2].origin = 3 /\ ret.lines[3].origin = 1
    /\ ret.lines[1].time = ret.lines[2].time
    /\ heap[2].texts # heap[3].texts

====
